---- MODULE Spec2Model ----
(***************************************************************************)
(* mpv-rs, src/src/wrapper.rs: the boundary layer between the host and the *)
(* native libmpv client API.  The model covers the owned native handle     *)
(* (Mpv::new, Drop for Mpv), the typed marshaling traits (GetData,         *)
(* SetData), the native string wrapper (MpvStr), the error translation     *)
(* (mpv_err, the From conversions) and the command builder (Mpv::command   *)
(* and the wrappers that call it).                                         *)
(*                                                                         *)
(* Text is a sequence of bytes (0..255).  A 64-bit scalar is its bit       *)
(* pattern, eight bytes, most significant byte first; memory holds it in   *)
(* the byte order of the build target (bigEndian).                         *)
(***************************************************************************)
EXTENDS Integers, Sequences, FiniteSets, TLC

VARIABLES
  bigEndian,  \* byte order of the build target
  linked,     \* crate::MPV_CLIENT_API_VERSION, the compiled-in version
  loaded,     \* what mpv_client_api_version() answers
  ctx,        \* the native context: "none", "created", "initialized", "destroyed"
  tdCount,    \* mpv_terminate_destroy calls made on the context
  misuse,     \* a native call was made on the context outside its protocol
  mpv,        \* the Mpv value: "none", "failed", "alive", "dropped"
  owners,     \* the threads that hold a share of the Mpv value
  op,         \* the handler that ran last, with its inputs
  result,     \* what it returned
  calls,      \* the native entry points it invoked, in order
  cmds,       \* the Mpv::command invocations it made, in order
  store,      \* the value the native side holds for the property
  lastSet,    \* the data the native side accepted, if the last set_property succeeded
  bufs,       \* the string buffers the native allocator handed out
  held,       \* the buffers owned by a live MpvStr
  oob         \* bytes the last get_property wrote outside its output storage

vars == <<bigEndian, linked, loaded, ctx, tdCount, misuse, mpv, owners, op,
          result, calls, cmds, store, lastSet, bufs, held, oob>>

---------------------------------------------------------------------------
(* Bounds of the model *)

NumThreads == 2
MaxBufs == 1
MaxFiles == 2

Threads == 1..NumThreads

\* Status codes the native side may answer: success and two error codes.
Statuses == {0, -1, -8}

\* Client API versions the build and the loaded library may have.
Versions == {1, 2}

---------------------------------------------------------------------------
(* Bytes and text *)

Reverse(s) == [i \in 1..Len(s) |-> s[Len(s) + 1 - i]]

HasNul(s) == \E i \in 1..Len(s) : s[i] = 0

\* The bytes of the C string that starts at the head of buf (CStr::from_ptr).
RECURSIVE CStrBytes(_)
CStrBytes(buf) ==
  IF buf = <<>> \/ Head(buf) = 0 THEN <<>>
  ELSE <<Head(buf)>> \o CStrBytes(Tail(buf))

IsCont(b) == b >= 128 /\ b <= 191

\* core::str::from_utf8: whether the bytes are well-formed UTF-8.
RECURSIVE Utf8Valid(_)
Utf8Valid(s) ==
  IF s = <<>> THEN TRUE
  ELSE LET b == s[1]
           n == Len(s)
       IN  IF b < 128 THEN Utf8Valid(Tail(s))
           ELSE IF b >= 194 /\ b <= 223
             THEN n >= 2 /\ IsCont(s[2]) /\ Utf8Valid(SubSeq(s, 3, n))
           ELSE IF b >= 224 /\ b <= 239
             THEN /\ n >= 3
                  /\ IsCont(s[2]) /\ IsCont(s[3])
                  /\ (b = 224 => s[2] >= 160)
                  /\ (b = 237 => s[2] <= 159)
                  /\ Utf8Valid(SubSeq(s, 4, n))
           ELSE IF b >= 240 /\ b <= 244
             THEN /\ n >= 4
                  /\ IsCont(s[2]) /\ IsCont(s[3]) /\ IsCont(s[4])
                  /\ (b = 240 => s[2] >= 144)
                  /\ (b = 244 => s[2] <= 143)
                  /\ Utf8Valid(SubSeq(s, 5, n))
           ELSE FALSE

---------------------------------------------------------------------------
(* Error taxonomy and results *)

ErrNull == [tag |-> "Null"]
ErrInvalidUtf8 == [tag |-> "InvalidUtf8"]
ErrRaw(code) == [tag |-> "Raw", code |-> code]
ErrVersionMismatch(l, d) == [tag |-> "VersionMismatch", linked |-> l, loaded |-> d]
ErrLoadfiles(i, e) == [tag |-> "Loadfiles", index |-> i, error |-> e]

Ok(v) == [ok |-> TRUE, val |-> v]
Err(e) == [ok |-> FALSE, err |-> e]

Unit == [t |-> "unit"]

\* Option<T>
None == [some |-> FALSE]
Some(v) == [some |-> TRUE, v |-> v]
UnwrapOr(o, d) == IF o.some THEN o.v ELSE d

NoResult == [ok |-> FALSE, err |-> [tag |-> "none"]]
NoOp == [name |-> "none"]

MpvErrConstCode(ret, err) == IF err = 0 THEN Ok(ret) ELSE Err(ErrRaw(-1))

mpv_err(ret, err) == IF err = 0 THEN Ok(ret) ELSE Err(ErrRaw(err))

CStringNewUnchecked(s) == [ok |-> TRUE, buf |-> Append(s, 0)]

\* CString::new: a NUL-terminated copy, or NulError (which converts to Null).
CStringNew(s) ==
  IF HasNul(s) THEN [ok |-> FALSE, err |-> ErrNull]
  ELSE [ok |-> TRUE, buf |-> Append(s, 0)]

\* mpv_cstr_to_str!: the text of the C string at the pointer, or InvalidUtf8.
MpvCstrToStr(buf) ==
  LET bytes == CStrBytes(buf)
  IN  IF Utf8Valid(bytes) THEN Ok(bytes) ELSE Err(ErrInvalidUtf8)

---------------------------------------------------------------------------
(* The native side of the context: what each entry point does to it *)

CallVersion == [fn |-> "mpv_client_api_version"]
CallCreate(isNull) == [fn |-> "mpv_create", null |-> isNull]
CallInitialize(st) == [fn |-> "mpv_initialize", status |-> st]
CallTerminateDestroy == [fn |-> "mpv_terminate_destroy"]
CallLoadConfig(file, st) == [fn |-> "mpv_load_config_file", file |-> file, status |-> st]
CallCommandString(text, st) == [fn |-> "mpv_command_string", text |-> text, status |-> st]
CallFree(b) == [fn |-> "mpv_free", buf |-> b]

OpFns == {"mpv_load_config_file", "mpv_command_string", "mpv_set_property",
          "mpv_get_property"}

\* ns = [ctx, td, misuse]: the context after one more native call.
NativeStep(ns, call) ==
  CASE call.fn = "mpv_create" ->
         [ns EXCEPT !.ctx = IF call.null THEN ns.ctx ELSE "created",
                    !.misuse = ns.misuse \/ ns.ctx # "none"]
    [] call.fn = "mpv_initialize" ->
         [ns EXCEPT !.ctx = IF call.status = 0 /\ ns.ctx = "created"
                              THEN "initialized" ELSE ns.ctx,
                    !.misuse = ns.misuse \/ ns.ctx # "created"]
    [] call.fn = "mpv_terminate_destroy" ->
         [ns EXCEPT !.ctx = "destroyed",
                    !.td = ns.td + 1,
                    !.misuse = ns.misuse \/ ns.ctx \notin {"created", "initialized"}]
    [] call.fn \in OpFns ->
         [ns EXCEPT !.misuse = ns.misuse \/ ns.ctx # "initialized"]
    [] OTHER -> ns

RECURSIVE NativeRun(_, _)
NativeRun(ns, cs) ==
  IF cs = <<>> THEN ns ELSE NativeRun(NativeStep(ns, Head(cs)), Tail(cs))

\* A handler that invoked the native calls cs, ran as o and returned r.
Finish(o, r, cs) ==
  LET ns == NativeRun([ctx |-> ctx, td |-> tdCount, misuse |-> misuse], cs)
  IN  /\ op' = o
      /\ result' = r
      /\ calls' = cs
      /\ ctx' = ns.ctx
      /\ tdCount' = ns.td
      /\ misuse' = ns.misuse

---------------------------------------------------------------------------
(* Mpv::new and Drop for Mpv *)

NewOutcomeNoTeardown(lnk, ld, isNull, st) ==
  IF lnk # ld
    THEN [calls |-> <<CallVersion>>, result |-> Err(ErrVersionMismatch(lnk, ld))]
  ELSE IF isNull
    THEN [calls |-> <<CallVersion, CallCreate(TRUE)>>, result |-> Err(ErrNull)]
  ELSE IF ~mpv_err(Unit, st).ok
    THEN [calls |-> <<CallVersion, CallCreate(FALSE), CallInitialize(st)>>,
          result |-> mpv_err(Unit, st)]
  ELSE [calls |-> <<CallVersion, CallCreate(FALSE), CallInitialize(st)>>,
        result |-> Ok([t |-> "Mpv"])]

NewOutcomeNoVersionCheck(lnk, ld, isNull, st) ==
  IF isNull
    THEN [calls |-> <<CallVersion, CallCreate(TRUE)>>, result |-> Err(ErrNull)]
  ELSE IF ~mpv_err(Unit, st).ok
    THEN [calls |-> <<CallVersion, CallCreate(FALSE), CallInitialize(st),
                      CallTerminateDestroy>>,
          result |-> mpv_err(Unit, st)]
  ELSE [calls |-> <<CallVersion, CallCreate(FALSE), CallInitialize(st)>>,
        result |-> Ok([t |-> "Mpv"])]

NewOutcomeNoNullCheck(lnk, ld, isNull, st) ==
  IF lnk # ld
    THEN [calls |-> <<CallVersion>>, result |-> Err(ErrVersionMismatch(lnk, ld))]
  ELSE IF ~mpv_err(Unit, st).ok
    THEN [calls |-> <<CallVersion, CallCreate(isNull), CallInitialize(st),
                      CallTerminateDestroy>>,
          result |-> mpv_err(Unit, st)]
  ELSE [calls |-> <<CallVersion, CallCreate(isNull), CallInitialize(st)>>,
        result |-> Ok([t |-> "Mpv"])]

\* Mpv::new, given what the native side answers: whether mpv_create returns
\* null and the status of mpv_initialize.
NewOutcome(lnk, ld, isNull, st) ==
  IF lnk # ld
    THEN [calls |-> <<CallVersion>>, result |-> Err(ErrVersionMismatch(lnk, ld))]
  ELSE IF isNull
    THEN [calls |-> <<CallVersion, CallCreate(TRUE)>>, result |-> Err(ErrNull)]
  ELSE IF ~mpv_err(Unit, st).ok
    THEN [calls |-> <<CallVersion, CallCreate(FALSE), CallInitialize(st),
                      CallTerminateDestroy>>,
          result |-> mpv_err(Unit, st)]
  ELSE [calls |-> <<CallVersion, CallCreate(FALSE), CallInitialize(st)>>,
        result |-> Ok([t |-> "Mpv"])]

MpvNew(t, isNull, st) ==
  /\ mpv = "none"
  /\ LET o == NewOutcome(linked, loaded, isNull, st)
     IN  /\ Finish([name |-> "new", null |-> isNull, status |-> st], o.result, o.calls)
         /\ mpv' = IF o.result.ok THEN "alive" ELSE "failed"
         /\ owners' = IF o.result.ok THEN {t} ELSE {}
  /\ cmds' = <<>>
  /\ UNCHANGED <<bigEndian, linked, loaded, store, lastSet, bufs, held, oob>>

\* A thread that holds the handle (an Arc<Mpv>, a scoped borrow) shares it.
Share(t, u) ==
  /\ mpv = "alive"
  /\ t \in owners
  /\ u \notin owners
  /\ owners' = owners \cup {u}
  /\ UNCHANGED <<bigEndian, linked, loaded, ctx, tdCount, misuse, mpv, op, result,
                 calls, cmds, store, lastSet, bufs, held, oob>>

DropCallsNone == <<>>

\* Drop for Mpv
DropCalls == <<CallTerminateDestroy>>

\* A thread gives up its share; the last owner's drop runs Drop for Mpv.
Release(t) ==
  /\ mpv = "alive"
  /\ t \in owners
  /\ owners' = owners \ {t}
  /\ IF owners' = {}
       THEN /\ mpv' = "dropped"
            /\ Finish([name |-> "drop"], Ok(Unit), DropCalls)
            /\ cmds' = <<>>
       ELSE UNCHANGED <<mpv, op, result, calls, cmds, ctx, tdCount, misuse>>
  /\ UNCHANGED <<bigEndian, linked, loaded, store, lastSet, bufs, held, oob>>

---------------------------------------------------------------------------
(* Mpv::command and Mpv::load_config *)

\* The loop of Mpv::command: push " " and then the element, for each element.
RECURSIVE PushArgs(_, _)
PushArgs(cmd, args) ==
  IF args = <<>> THEN cmd
  ELSE PushArgs(cmd \o <<32>> \o Head(args), Tail(args))

CommandText(name, args) == PushArgs(name, args)

\* Mpv::command, given the status mpv_command_string answers.
CommandOutcome(name, args, st) ==
  LET cmd == CommandText(name, args)
      raw == CStringNew(cmd)
  IN  IF ~raw.ok
        THEN [result |-> Err(raw.err), calls |-> <<>>, text |-> cmd]
        ELSE [result |-> mpv_err(Unit, st),
              calls |-> <<CallCommandString(raw.buf, st)>>,
              text |-> cmd]

CmdRecord(name, args, o) ==
  [name |-> name, args |-> args, text |-> o.text, result |-> o.result]

Command(t, name, args, st) ==
  /\ mpv = "alive"
  /\ t \in owners
  /\ LET o == CommandOutcome(name, args, st)
     IN  /\ Finish([name |-> "command", cname |-> name, args |-> args],
                   o.result, o.calls)
         /\ cmds' = <<CmdRecord(name, args, o)>>
  /\ UNCHANGED <<bigEndian, linked, loaded, mpv, owners, store, lastSet, bufs,
                 held, oob>>

\* Mpv::load_config, given the status mpv_load_config_file answers.
LoadConfigOutcome(path, st) ==
  LET file == CStringNew(path)
  IN  IF ~file.ok
        THEN [result |-> Err(file.err), calls |-> <<>>]
        ELSE [result |-> mpv_err(Unit, st),
              calls |-> <<CallLoadConfig(file.buf, st)>>]

LoadConfig(t, path, st) ==
  /\ mpv = "alive"
  /\ t \in owners
  /\ LET o == LoadConfigOutcome(path, st)
     IN  Finish([name |-> "load_config", path |-> path], o.result, o.calls)
  /\ cmds' = <<>>
  /\ UNCHANGED <<bigEndian, linked, loaded, mpv, owners, store, lastSet, bufs,
                 held, oob>>

---------------------------------------------------------------------------
(* Format tags and memory layout *)

\* GetData::get_format / SetData::get_format of each implementing type.
GetFormat(ty) ==
  CASE ty = "f64" -> "Double"
    [] ty = "i64" -> "Int64"
    [] ty = "bool" -> "Flag"
    [] ty \in {"String", "str", "MpvStr"} -> "String"

\* Format::as_mpv_format
AsMpvFormat(f) ==
  CASE f = "String" -> "MPV_FORMAT_STRING"
    [] f = "Flag" -> "MPV_FORMAT_FLAG"
    [] f = "Int64" -> "MPV_FORMAT_INT64"
    [] f = "Double" -> "MPV_FORMAT_DOUBLE"

\* Bytes the native side reads or writes at the data pointer for a format:
\* a flag is a C int, the others are 64 bits wide (a string is a char pointer).
NativeWidth(fmt) == IF fmt = "MPV_FORMAT_FLAG" THEN 4 ELSE 8

\* size_of::<T>() of the scalar types
SizeOf(ty) == IF ty = "bool" THEN 1 ELSE 8

ToMem(bits, be) == IF be THEN bits ELSE Reverse(bits)
FromMem(mem, be) == IF be THEN mem ELSE Reverse(mem)

Zeros(n) == [i \in 1..n |-> 0]
IntBits(n, v) == [i \in 1..n |-> IF i = n THEN v ELSE 0]

Min2(a, b) == IF a < b THEN a ELSE b
Max2(a, b) == IF a > b THEN a ELSE b

\* The first n bytes at a pointer to mem; bytes past the end of mem belong
\* to whatever lies behind it (170 stands for them).
ReadAt(mem, n) == [i \in 1..n |-> IF i <= Len(mem) THEN mem[i] ELSE 170]

---------------------------------------------------------------------------
(* SetData and Mpv::set_property *)

\* SetData::call_as_c_void: the bytes at the pointer handed to the callback.
\* The default passes the address of the value; bool first widens to an i64;
\* String and &str pass the address of a pointer to a CString.
Staged(data, be) ==
  CASE data.ty \in {"f64", "i64"} -> [ok |-> TRUE, mem |-> ToMem(data.bits, be)]
    [] data.ty = "bool" ->
         [ok |-> TRUE, mem |-> ToMem(IntBits(8, IF data.b THEN 1 ELSE 0), be)]
    [] data.ty \in {"String", "str"} ->
         LET string == CStringNew(data.s)
         IN  IF string.ok THEN [ok |-> TRUE, mem |-> string.buf]
             ELSE [ok |-> FALSE, err |-> string.err]

\* What the native side takes from the data pointer of mpv_set_property and
\* keeps, in the layout of the format.
NativeRead(fmt, mem, be) ==
  IF fmt = "MPV_FORMAT_STRING"
    THEN [fmt |-> fmt, bytes |-> CStrBytes(mem)]
    ELSE [fmt |-> fmt, bits |-> FromMem(ReadAt(mem, NativeWidth(fmt)), be)]

\* Mpv::set_property, given the status mpv_set_property answers and the
\* value cur the native side holds.
SetOutcome(name, data, st, be, cur) ==
  LET cname == CStringNew(name)
      format == AsMpvFormat(GetFormat(data.ty))
      stg == Staged(data, be)
  IN  IF ~cname.ok THEN [result |-> Err(cname.err), calls |-> <<>>, store |-> cur]
      ELSE IF ~stg.ok THEN [result |-> Err(stg.err), calls |-> <<>>, store |-> cur]
      ELSE [result |-> mpv_err(Unit, st),
            calls |-> <<[fn |-> "mpv_set_property", name |-> cname.buf,
                         format |-> format, mem |-> stg.mem, status |-> st]>>,
            store |-> IF st = 0 THEN NativeRead(format, stg.mem, be) ELSE cur]

SetProperty(t, name, data, st) ==
  /\ mpv = "alive"
  /\ t \in owners
  /\ LET o == SetOutcome(name, data, st, bigEndian, store)
     IN  /\ Finish([name |-> "set_property", pname |-> name, data |-> data],
                   o.result, o.calls)
         /\ store' = o.store
         /\ lastSet' = IF o.result.ok THEN Some(data) ELSE None
  /\ cmds' = <<>>
  /\ oob' = 0
  /\ UNCHANGED <<bigEndian, linked, loaded, mpv, owners, bufs, held>>

---------------------------------------------------------------------------
(* GetData and Mpv::get_property *)

\* The bytes the native side writes at the data pointer of mpv_get_property.
NativeBytes(cur, be) == ToMem(cur.bits, be)

\* GetData::get_from_c_void of f64, i64 and bool, after the callback
\* succeeded: the storage of size_of::<T>() bytes, read back as a T.
ScalarFromStorage(ty, mem, be) ==
  LET stored == SubSeq(mem, 1, Min2(SizeOf(ty), Len(mem)))
  IN  IF ty = "bool" THEN [t |-> "bool", b |-> stored[1] # 0]
      ELSE [t |-> ty, bits |-> FromMem(stored, be)]

StringFromPointerDoubleFree(ty, b, buf) ==
  LET text == MpvCstrToStr(buf)
  IN  IF ~text.ok THEN [result |-> Err(text.err), calls |-> <<>>, hold |-> FALSE]
      ELSE IF ty = "String"
        THEN [result |-> Ok([t |-> "String", s |-> text.val]),
              calls |-> <<CallFree(b), CallFree(b)>>, hold |-> FALSE]
      ELSE [result |-> Ok([t |-> "MpvStr", s |-> text.val, buf |-> b]),
            calls |-> <<>>, hold |-> TRUE]

\* GetData::get_from_c_void of String and MpvStr, after the callback stored
\* the pointer to the native buffer b, which holds buf.
StringFromPointer(ty, b, buf) ==
  LET text == MpvCstrToStr(buf)
  IN  IF ~text.ok THEN [result |-> Err(text.err), calls |-> <<>>, hold |-> FALSE]
      ELSE IF ty = "String"
        THEN [result |-> Ok([t |-> "String", s |-> text.val]),
              calls |-> <<CallFree(b)>>, hold |-> FALSE]
      ELSE [result |-> Ok([t |-> "MpvStr", s |-> text.val, buf |-> b]),
            calls |-> <<>>, hold |-> TRUE]

GetOutcomeNoShortCircuit(name, ty, st, be, cur, b) ==
  LET cname == CStringNew(name)
      format == AsMpvFormat(GetFormat(ty))
      call == [fn |-> "mpv_get_property", name |-> IF cname.ok THEN cname.buf ELSE <<>>,
               format |-> format, status |-> st]
      none == [alloc |-> FALSE, hold |-> FALSE, oob |-> 0]
  IN  IF ~cname.ok
        THEN [result |-> Err(cname.err), calls |-> <<>>] @@ none
      ELSE IF format = "MPV_FORMAT_STRING"
        THEN LET o == StringFromPointer(ty, b, IF st = 0 THEN Append(cur.bytes, 0) ELSE <<0>>)
             IN  [result |-> IF st = 0 THEN o.result ELSE mpv_err(Unit, st),
                  calls |-> <<call>> \o o.calls,
                  alloc |-> st = 0, hold |-> o.hold /\ st = 0, oob |-> 0]
      ELSE IF ~mpv_err(Unit, st).ok
        THEN [result |-> mpv_err(Unit, st), calls |-> <<call>>] @@ none
      ELSE [result |-> Ok(ScalarFromStorage(ty, NativeBytes(cur, be), be)),
            calls |-> <<call>>, alloc |-> FALSE, hold |-> FALSE,
            oob |-> Max2(0, NativeWidth(format) - SizeOf(ty))]

\* Mpv::get_property::<ty>, given the status mpv_get_property answers, the
\* value cur the native side holds and the id b of the next native buffer.
GetOutcome(name, ty, st, be, cur, b) ==
  LET cname == CStringNew(name)
      format == AsMpvFormat(GetFormat(ty))
      call == [fn |-> "mpv_get_property", name |-> IF cname.ok THEN cname.buf ELSE <<>>,
               format |-> format, status |-> st]
      none == [alloc |-> FALSE, hold |-> FALSE, oob |-> 0]
  IN  IF ~cname.ok
        THEN [result |-> Err(cname.err), calls |-> <<>>] @@ none
      ELSE IF ~mpv_err(Unit, st).ok
        THEN [result |-> mpv_err(Unit, st), calls |-> <<call>>] @@ none
      ELSE IF format = "MPV_FORMAT_STRING"
        THEN LET o == StringFromPointer(ty, b, Append(cur.bytes, 0))
             IN  [result |-> o.result, calls |-> <<call>> \o o.calls,
                  alloc |-> TRUE, hold |-> o.hold, oob |-> 0]
      ELSE [result |-> Ok(ScalarFromStorage(ty, NativeBytes(cur, be), be)),
            calls |-> <<call>>, alloc |-> FALSE, hold |-> FALSE,
            oob |-> Max2(0, NativeWidth(format) - SizeOf(ty))]

FreesOf(b, cs) == Cardinality({i \in 1..Len(cs) : cs[i] = CallFree(b)})

GetProperty(t, name, ty, st) ==
  /\ mpv = "alive"
  /\ t \in owners
  \* the native side answers success only with a value of the asked format
  /\ st = 0 => store.fmt = AsMpvFormat(GetFormat(ty))
  /\ st = 0 /\ GetFormat(ty) = "String" => Len(bufs) < MaxBufs
  /\ LET b == Len(bufs) + 1
         o == GetOutcome(name, ty, st, bigEndian, store, b)
     IN  /\ Finish([name |-> "get_property", pname |-> name, ty |-> ty],
                   o.result, o.calls)
         /\ bufs' = IF o.alloc THEN Append(bufs, [frees |-> FreesOf(b, o.calls)])
                    ELSE bufs
         /\ held' = IF o.hold THEN held \cup {b} ELSE held
         /\ oob' = o.oob
  /\ cmds' = <<>>
  /\ UNCHANGED <<bigEndian, linked, loaded, mpv, owners, store, lastSet>>

\* Drop for MpvStr
DropMpvStrCalls(b) == <<CallFree(b)>>

\* A live MpvStr goes out of scope.
DropMpvStr(b) ==
  /\ b \in held
  /\ LET cs == DropMpvStrCalls(b)
     IN  /\ Finish([name |-> "drop_mpvstr", buf |-> b], Ok(Unit), cs)
         /\ bufs' = [bufs EXCEPT ![b].frees = @ + FreesOf(b, cs)]
  /\ held' = held \ {b}
  /\ cmds' = <<>>
  /\ UNCHANGED <<bigEndian, linked, loaded, mpv, owners, store, lastSet, oob>>

---------------------------------------------------------------------------
(* Mpv::playlist_load_files *)

S_loadfile == <<108, 111, 97, 100, 102, 105, 108, 101>>
S_replace == <<114, 101, 112, 108, 97, 99, 101>>
S_append == <<97, 112, 112, 101, 110, 100>>
S_append_play == <<97, 112, 112, 101, 110, 100, 45, 112, 108, 97, 121>>
S_seek == <<115, 101, 101, 107>>
S_relative == <<114, 101, 108, 97, 116, 105, 118, 101>>
S_5 == <<53>>

\* FileState::val
FileStateVal(state) ==
  CASE state = "Replace" -> S_replace
    [] state = "Append" -> S_append
    [] state = "AppendPlay" -> S_append_play

\* format!("\"{}\"", path)
Quote(path) == <<34>> \o path \o <<34>>

\* The arguments playlist_load_files passes to command for one entry.
LoadfileArgs(elem) ==
  <<Quote(elem.path), FileStateVal(elem.state), UnwrapOr(elem.opts, <<>>)>>

RECURSIVE LoadLoopKeepGoing(_, _, _, _)
LoadLoopKeepGoing(files, i, sts, acc) ==
  IF i >= Len(files)
    THEN [result |-> Ok(Unit), cmds |-> acc.cmds, calls |-> acc.calls]
    ELSE LET o == CommandOutcome(S_loadfile, LoadfileArgs(files[i + 1]), sts[i + 1])
             acc2 == [cmds |-> Append(acc.cmds,
                                      CmdRecord(S_loadfile, LoadfileArgs(files[i + 1]), o)),
                      calls |-> acc.calls \o o.calls]
             rest == LoadLoopKeepGoing(files, i + 1, sts, acc2)
         IN  IF ~o.result.ok
               THEN [rest EXCEPT !.result = Err(ErrLoadfiles(i, o.result.err))]
               ELSE rest

\* The loop of playlist_load_files from the entry of 0-based index i on;
\* sts[k] is the status mpv_command_string answers for entry k - 1.
RECURSIVE LoadLoop(_, _, _, _)
LoadLoop(files, i, sts, acc) ==
  IF i >= Len(files)
    THEN [result |-> Ok(Unit), cmds |-> acc.cmds, calls |-> acc.calls]
    ELSE LET o == CommandOutcome(S_loadfile, LoadfileArgs(files[i + 1]), sts[i + 1])
             acc2 == [cmds |-> Append(acc.cmds,
                                      CmdRecord(S_loadfile, LoadfileArgs(files[i + 1]), o)),
                      calls |-> acc.calls \o o.calls]
         IN  IF ~o.result.ok
               THEN [result |-> Err(ErrLoadfiles(i, o.result.err)),
                     cmds |-> acc2.cmds, calls |-> acc2.calls]
               ELSE LoadLoop(files, i + 1, sts, acc2)

PlaylistLoadFiles(t, files, sts) ==
  /\ mpv = "alive"
  /\ t \in owners
  /\ LET o == LoadLoop(files, 0, sts, [cmds |-> <<>>, calls |-> <<>>])
     IN  /\ Finish([name |-> "playlist_load_files", files |-> files, sts |-> sts],
                   o.result, o.calls)
         /\ cmds' = o.cmds
  /\ UNCHANGED <<bigEndian, linked, loaded, mpv, owners, store, lastSet, bufs,
                 held, oob>>

---------------------------------------------------------------------------
(* Wrappers of Mpv::command: subtitles and seeking *)

S_sub_add == <<115, 117, 98, 45, 97, 100, 100>>
S_select == <<115, 101, 108, 101, 99, 116>>
S_auto == <<97, 117, 116, 111>>
S_relative_percent ==
  <<114, 101, 108, 97, 116, 105, 118, 101, 45, 112, 101, 114, 99, 101, 110, 116>>

\* panic!: the call does not return; no value of Result comes to exist.
Panic == [ok |-> FALSE, panic |-> TRUE]

\* self.command(name, args) as the last expression of a wrapper.
Issue(name, args, st) ==
  LET o == CommandOutcome(name, args, st)
  IN  [result |-> o.result, calls |-> o.calls, cmds |-> <<CmdRecord(name, args, o)>>]

SubtitleAddSelectOutcomeNoPanic(path, title, lang, st) ==
  CASE ~title.some /\ ~lang.some -> Issue(S_sub_add, <<Quote(path), S_select>>, st)
    [] title.some /\ ~lang.some ->
         Issue(S_sub_add, <<Quote(path), S_select, title.v>>, st)
    [] ~title.some /\ lang.some ->
         Issue(S_sub_add, <<Quote(path), S_select, lang.v>>, st)
    [] title.some /\ lang.some ->
         Issue(S_sub_add, <<Quote(path), S_select, title.v, lang.v>>, st)

\* The match of subtitle_add_select on (title, lang).
SubtitleAddSelectOutcome(path, title, lang, st) ==
  CASE ~title.some /\ ~lang.some -> Issue(S_sub_add, <<Quote(path), S_select>>, st)
    [] title.some /\ ~lang.some ->
         Issue(S_sub_add, <<Quote(path), S_select, title.v>>, st)
    [] ~title.some /\ lang.some -> [result |-> Panic, calls |-> <<>>, cmds |-> <<>>]
    [] title.some /\ lang.some ->
         Issue(S_sub_add, <<Quote(path), S_select, title.v, lang.v>>, st)

\* The match of subtitle_add_auto on (title, lang).
SubtitleAddAutoOutcome(path, title, lang, st) ==
  CASE ~title.some /\ ~lang.some -> Issue(S_sub_add, <<Quote(path), S_auto>>, st)
    [] title.some /\ ~lang.some ->
         Issue(S_sub_add, <<Quote(path), S_auto, title.v>>, st)
    [] title.some /\ lang.some ->
         Issue(S_sub_add, <<Quote(path), S_auto, title.v, lang.v>>, st)
    [] ~title.some /\ lang.some -> [result |-> Panic, calls |-> <<>>, cmds |-> <<>>]

\* A wrapper that borrows the handle: it leaves everything but the trace of
\* the call alone, also when it panics (the handle is not dropped).
Wrapper(t, o, out) ==
  /\ mpv = "alive"
  /\ t \in owners
  /\ Finish(o, out.result, out.calls)
  /\ cmds' = out.cmds
  /\ UNCHANGED <<bigEndian, linked, loaded, mpv, owners, store, lastSet, bufs,
                 held, oob>>

SubtitleAddSelect(t, path, title, lang, st) ==
  Wrapper(t, [name |-> "subtitle_add_select", path |-> path, title |-> title,
              lang |-> lang],
          SubtitleAddSelectOutcome(path, title, lang, st))

SubtitleAddAuto(t, path, title, lang, st) ==
  Wrapper(t, [name |-> "subtitle_add_auto", path |-> path, title |-> title,
              lang |-> lang],
          SubtitleAddAutoOutcome(path, title, lang, st))

\* format!("{}", n) of an isize or usize: decimal digits, "-" before a
\* negative number.
RECURSIVE Digits(_)
Digits(n) == IF n < 10 THEN <<48 + n>> ELSE Append(Digits(n \div 10), 48 + (n % 10))

FormatInt(n) == IF n < 0 THEN <<45>> \o Digits(0 - n) ELSE Digits(n)

\* seek_percent
SeekPercentOutcome(percent, st) ==
  Issue(S_seek, <<FormatInt(percent), S_relative_percent>>, st)

\* seek_percent_absolute
SeekPercentAbsoluteOutcome(percent, st) ==
  Issue(S_seek, <<FormatInt(percent), S_relative_percent>>, st)

SeekPercent(t, percent, st) ==
  Wrapper(t, [name |-> "seek_percent", percent |-> percent],
          SeekPercentOutcome(percent, st))

SeekPercentAbsolute(t, percent, st) ==
  Wrapper(t, [name |-> "seek_percent_absolute", percent |-> percent],
          SeekPercentAbsoluteOutcome(percent, st))

---------------------------------------------------------------------------
(* Inputs *)

SeqsUpTo(S, n) == UNION {[1..k -> S] : k \in 0..n}

P_name == <<112>>
PropNames == {P_name, <<112, 0>>}

\* 0, -1, i64::MAX, i64::MIN
I64Boundary == {Zeros(8), [i \in 1..8 |-> 255],
                [i \in 1..8 |-> IF i = 1 THEN 127 ELSE 255],
                [i \in 1..8 |-> IF i = 1 THEN 128 ELSE 0]}
\* 0.0, -1.0, f64::MAX, f64::MIN
F64Boundary == {Zeros(8), <<191, 240, 0, 0, 0, 0, 0, 0>>,
                <<127, 239, 255, 255, 255, 255, 255, 255>>,
                <<255, 239, 255, 255, 255, 255, 255, 255>>}

\* The values of the round trip: the boundary values of the scalar types
\* and host strings (well-formed UTF-8) without a NUL.
RoundValues ==
  {[ty |-> "bool", b |-> v] : v \in BOOLEAN}
  \cup {[ty |-> "i64", bits |-> v] : v \in I64Boundary}
  \cup {[ty |-> "f64", bits |-> v] : v \in F64Boundary}
  \cup {[ty |-> "String", s |-> v] : v \in {<<>>, <<97>>, <<195, 169>>}}
  \cup {[ty |-> "str", s |-> <<97, 32, 98>>]}

\* One value of each writable type, and strings that hold a NUL.
SetValues ==
  {[ty |-> "bool", b |-> TRUE],
   [ty |-> "i64", bits |-> [i \in 1..8 |-> 255]],
   [ty |-> "f64", bits |-> <<191, 240, 0, 0, 0, 0, 0, 0>>],
   [ty |-> "String", s |-> <<195, 169>>],
   [ty |-> "String", s |-> <<97, 0, 98>>],
   [ty |-> "str", s |-> <<97>>],
   [ty |-> "str", s |-> <<0>>]}

GetTypes == {"f64", "i64", "bool", "String", "MpvStr"}

\* What the native side may hold before the host wrote anything: text in
\* any encoding, or a flag.
InitStores == {[fmt |-> "MPV_FORMAT_STRING", bytes |-> <<195, 40>>],
               [fmt |-> "MPV_FORMAT_STRING", bytes |-> <<104>>],
               [fmt |-> "MPV_FORMAT_FLAG", bits |-> IntBits(4, 1)]}

CmdNames == {<<97>>, <<0>>}
CmdArgs == {<<>>, << <<98>>, <<99, 0>> >>}
ConfigPaths == {<<47, 99>>, <<47, 0>>}

BuilderNames == {S_seek, <<97>>}
BuilderArgs == {<<>>, <<S_5, S_relative>>, << <<98>> >>, << <<98>>, <<0>> >>}

FileEntries ==
  {[path |-> <<97>>, state |-> "Replace", opts |-> None],
   [path |-> <<98>>, state |-> "Append", opts |-> Some(<<111>>)],
   [path |-> <<97, 0>>, state |-> "AppendPlay", opts |-> None]}

SubPaths == {<<115>>, <<115, 0>>}
SubTitles == {None, Some(<<116>>)}
SubLangs == {None, Some(<<108>>)}

\* isize and usize percentages: below, inside and at the ends of 0..100
SeekPercents == {-5, 0, 50, 100}
SeekPercentsAbsolute == {0, 50, 100}

---------------------------------------------------------------------------
(* Specifications *)

\* Before Mpv::new: nothing exists yet.
Init ==
  /\ bigEndian \in BOOLEAN
  /\ linked \in Versions
  /\ loaded \in Versions
  /\ ctx = "none"
  /\ tdCount = 0
  /\ misuse = FALSE
  /\ mpv = "none"
  /\ owners = {}
  /\ op = NoOp
  /\ result = NoResult
  /\ calls = <<>>
  /\ cmds = <<>>
  /\ store \in InitStores
  /\ lastSet = None
  /\ bufs = <<>>
  /\ held = {}
  /\ oob = 0

\* The life of one handle, shared between threads.
Next ==
  \/ \E t \in Threads, isNull \in BOOLEAN, st \in Statuses : MpvNew(t, isNull, st)
  \/ \E t, u \in Threads : Share(t, u)
  \/ \E t \in Threads : Release(t)
  \/ \E t \in Threads, st \in Statuses : Command(t, <<97>>, <<>>, st)
  \/ \E t \in Threads, st \in Statuses : LoadConfig(t, <<47, 99>>, st)
  \/ \E t \in Threads, st \in Statuses :
       SetProperty(t, P_name, [ty |-> "bool", b |-> TRUE], st)
  \/ \E t \in Threads, ty \in {"bool", "String"}, st \in Statuses :
       GetProperty(t, P_name, ty, st)

Spec == Init /\ [][Next]_vars

\* A Ready handle: the state Mpv::new leaves when every native call succeeds.
Ready ==
  /\ linked = 1
  /\ loaded = 1
  /\ ctx = "initialized"
  /\ tdCount = 0
  /\ misuse = FALSE
  /\ mpv = "alive"
  /\ owners = {1}
  /\ op = [name |-> "new", null |-> FALSE, status |-> 0]
  /\ result = NewOutcome(1, 1, FALSE, 0).result
  /\ calls = NewOutcome(1, 1, FALSE, 0).calls
  /\ cmds = <<>>
  /\ store \in InitStores
  /\ lastSet = None
  /\ bufs = <<>>
  /\ held = {}
  /\ oob = 0

InitOps == bigEndian = FALSE /\ Ready

\* The operations of a Ready handle, on every kind of input.
NextOps ==
  \/ \E name \in CmdNames, args \in CmdArgs, st \in Statuses :
       Command(1, name, args, st)
  \/ \E path \in ConfigPaths, st \in Statuses : LoadConfig(1, path, st)
  \/ \E name \in PropNames, data \in SetValues, st \in Statuses :
       SetProperty(1, name, data, st)
  \/ \E name \in PropNames, ty \in GetTypes, st \in Statuses :
       GetProperty(1, name, ty, st)
  \/ \E b \in 1..MaxBufs : DropMpvStr(b)

SpecOps == InitOps /\ [][NextOps]_vars

InitRound == bigEndian \in BOOLEAN /\ Ready

\* Writing and reading one property, on either byte order.
NextRound ==
  \/ \E data \in RoundValues, st \in Statuses : SetProperty(1, P_name, data, st)
  \/ \E ty \in GetTypes, st \in Statuses : GetProperty(1, P_name, ty, st)
  \/ \E b \in 1..MaxBufs : DropMpvStr(b)

SpecRound == InitRound /\ [][NextRound]_vars

\* The command builder and the wrappers that call it.
NextCmd ==
  \/ \E name \in BuilderNames, args \in BuilderArgs, st \in Statuses :
       Command(1, name, args, st)
  \/ \E files \in SeqsUpTo(FileEntries, MaxFiles) :
       \E sts \in [1..Len(files) -> Statuses] : PlaylistLoadFiles(1, files, sts)
  \/ \E path \in SubPaths, title \in SubTitles, lang \in SubLangs, st \in Statuses :
       SubtitleAddSelect(1, path, title, lang, st)
  \/ \E path \in SubPaths, title \in SubTitles, lang \in SubLangs, st \in Statuses :
       SubtitleAddAuto(1, path, title, lang, st)
  \/ \E percent \in SeekPercents, st \in Statuses : SeekPercent(1, percent, st)
  \/ \E percent \in SeekPercentsAbsolute, st \in Statuses :
       SeekPercentAbsolute(1, percent, st)

SpecCmd == InitOps /\ [][NextCmd]_vars

---------------------------------------------------------------------------
(* Owned native handle: Mpv::new and Drop for Mpv *)

\* C1: on a context that mpv_create returned non-null, the native calls
\* follow the order create, initialize, operations, terminate-and-destroy
\* under every interleaving of the threads that share the handle:
\* terminate-and-destroy has run exactly once as soon as no Mpv value owns
\* the context (never twice, and not at all while the handle is alive), and
\* no operation is issued before initialize succeeded or after teardown.
C1_LifecycleOrder ==
  /\ ~misuse
  /\ tdCount <= 1
  /\ (mpv = "alive" => ctx = "initialized" /\ tdCount = 0 /\ owners # {})
  /\ (ctx # "none" /\ mpv # "alive" => ctx = "destroyed" /\ tdCount = 1)
  /\ (mpv # "alive" => owners = {})
  /\ \A i \in 1..Len(calls) :
       calls[i].fn \in OpFns => mpv = "alive" /\ ctx = "initialized"

C1_Witness ==
  /\ mpv = "dropped"
  /\ op.name = "drop"
  /\ calls = <<CallTerminateDestroy>>
  /\ tdCount = 1

\* C2: when the linked and the loaded API versions differ, Mpv::new fails
\* with VersionMismatch carrying both versions and the version query is the
\* only native call: no create, no initialize, no terminate-and-destroy.
C2_VersionMismatch ==
  linked # loaded =>
    /\ ctx = "none"
    /\ tdCount = 0
    /\ mpv \in {"none", "failed"}
    /\ \A i \in 1..Len(calls) : calls[i].fn = "mpv_client_api_version"
    /\ (op.name = "new" =>
          /\ result = Err([tag |-> "VersionMismatch", linked |-> linked,
                           loaded |-> loaded])
          /\ Len(calls) = 1)

C2_Witness ==
  /\ op.name = "new"
  /\ linked # loaded
  /\ ~result.ok
  /\ result.err.tag = "VersionMismatch"

\* C3: when mpv_initialize answers a non-zero status in Mpv::new,
\* terminate-and-destroy runs exactly once on the created context before
\* new returns, new returns Raw with that status, and no Mpv value exists,
\* so no drop can run terminate-and-destroy again.
C3_InitializeFails ==
  (op.name = "new" /\ linked = loaded /\ ~op.null /\ op.status # 0) =>
    /\ result = Err([tag |-> "Raw", code |-> op.status])
    /\ Len(calls) = 4
    /\ calls[3] = CallInitialize(op.status)
    /\ calls[4] = CallTerminateDestroy
    /\ tdCount = 1
    /\ ctx = "destroyed"
    /\ mpv = "failed"
    /\ owners = {}
    /\ ~ENABLED (\E t \in Threads : Release(t))

C3_Witness ==
  /\ op.name = "new"
  /\ linked = loaded
  /\ ~op.null
  /\ op.status = -8
  /\ tdCount = 1

\* C4: when mpv_create returns null, Mpv::new fails with Null and makes no
\* further native call: neither initialize nor terminate-and-destroy.
C4_CreateNull ==
  (op.name = "new" /\ linked = loaded /\ op.null) =>
    /\ result = Err([tag |-> "Null"])
    /\ calls = <<CallVersion, CallCreate(TRUE)>>
    /\ tdCount = 0
    /\ ctx = "none"
    /\ mpv = "failed"

C4_Witness ==
  /\ op.name = "new"
  /\ linked = loaded
  /\ op.null
  /\ ~result.ok
  /\ Len(calls) = 2

---------------------------------------------------------------------------
(* Native strings, NUL bytes and status codes *)

\* C5: every string buffer the native allocator handed to a string read
\* (get_property as String or as MpvStr) is released through mpv_free
\* exactly once on every path, the InvalidUtf8 path included: a buffer that
\* no live MpvStr owns has been freed once, and one that a live MpvStr owns
\* has not been freed yet.
C5_FreedExactlyOnce ==
  \A b \in 1..Len(bufs) : bufs[b].frees = IF b \in held THEN 0 ELSE 1

\* The text inputs of the last operation that must become C strings.
NulInput ==
  CASE op.name = "command" ->
         HasNul(op.cname) \/ \E i \in 1..Len(op.args) : HasNul(op.args[i])
    [] op.name = "load_config" -> HasNul(op.path)
    [] op.name = "get_property" -> HasNul(op.pname)
    [] op.name = "set_property" ->
         \/ HasNul(op.pname)
         \/ (op.data.ty \in {"String", "str"} /\ HasNul(op.data.s))
    [] OTHER -> FALSE

\* C6: a host string with an embedded NUL that must become a NUL-terminated
\* buffer (the command text, a property name, a String or &str value, the
\* config path) makes the operation fail with Null before any native call.
C6_NulBeforeNative ==
  NulInput => result = Err([tag |-> "Null"]) /\ calls = <<>>

C6_Witness ==
  /\ op.name = "set_property"
  /\ ~HasNul(op.pname)
  /\ op.data.ty = "String"
  /\ HasNul(op.data.s)
  /\ result = Err([tag |-> "Null"])
  /\ calls = <<>>

\* The native calls that answer a status code.
HasStatus(call) == call.fn \in OpFns \cup {"mpv_initialize"}

---------------------------------------------------------------------------
(* Round trip of a property *)

\* The value get_property::<ty> returns for the data v that was written.
ReadBack(ty, v) ==
  CASE ty = "bool" -> [t |-> "bool", b |-> v.b]
    [] ty \in {"i64", "f64"} -> [t |-> ty, bits |-> v.bits]
    [] ty = "String" -> [t |-> "String", s |-> v.s]

\* C10: set_property of type T to v followed by get_property of type T on
\* the same property returns v, for double, 64-bit integer and boolean at
\* their boundary values and for strings without a NUL, when the native
\* side keeps what was written and answers the read with success.
C10_RoundTrip ==
  (/\ op.name = "get_property"
   /\ lastSet.some
   /\ op.ty = (IF lastSet.v.ty = "str" THEN "String" ELSE lastSet.v.ty)
   /\ Len(calls) = 1
   /\ calls[1].status = 0)
  => result = Ok(ReadBack(op.ty, lastSet.v))

---------------------------------------------------------------------------
(* Command builder and batch load *)

S_seek_5_relative ==
  <<115, 101, 101, 107, 32, 53, 32, 114, 101, 108, 97, 116, 105, 118, 101>>

\* Where token k of args starts in the text: after the name, the tokens
\* before it and one separator for each of them.
RECURSIVE TokenOffset(_, _, _)
TokenOffset(name, args, k) ==
  IF k = 1 THEN Len(name)
  ELSE TokenOffset(name, args, k - 1) + 1 + Len(args[k - 1])

\* The text is the name followed by the tokens in order, each after a
\* single space.
JoinedBySpaces(text, name, args) ==
  /\ SubSeq(text, 1, Len(name)) = name
  /\ Len(text) = TokenOffset(name, args, Len(args) + 1)
  /\ \A k \in 1..Len(args) :
       LET at == TokenOffset(name, args, k)
       IN  /\ text[at + 1] = 32
           /\ SubSeq(text, at + 2, at + 1 + Len(args[k])) = args[k]

NoTrailingSeparator(text) == text # <<>> => text[Len(text)] # 32

\* C7: command assembles the name followed by the tokens in order, joined
\* by single spaces, with no trailing separator; "seek" with
\* ["5", "relative"] gives exactly `seek 5 relative`, zero arguments give
\* exactly the name; this holds for every token sequence the callers pass,
\* the empty options token of playlist_load_files included.
C7_CommandText ==
  \A i \in 1..Len(cmds) :
    LET c == cmds[i]
    IN  /\ JoinedBySpaces(c.text, c.name, c.args)
        /\ NoTrailingSeparator(c.text)
        /\ (c.name = S_seek /\ c.args = <<S_5, S_relative>>
              => c.text = S_seek_5_relative)
        /\ (c.args = <<>> => c.text = c.name)

\* Whether the loadfile command of entry e fails, given the status st the
\* native side answers it, and with what error.
EntryFails(e, st) ==
  HasNul(e.path) \/ (e.opts.some /\ HasNul(e.opts.v)) \/ st # 0
EntryError(e, st) ==
  IF HasNul(e.path) \/ (e.opts.some /\ HasNul(e.opts.v))
    THEN [tag |-> "Null"]
    ELSE [tag |-> "Raw", code |-> st]

\* C8: playlist_load_files over N entries where entry k (0-indexed) is the
\* first whose loadfile command fails returns Loadfiles with index k and
\* the error of entry k's command; entries 0..k were each attempted once,
\* in order, and none after k; when no entry fails all N are attempted in
\* order and the result is Ok.
C8_BatchLoad ==
  op.name = "playlist_load_files" =>
    LET files == op.files
        failing == {i \in 1..Len(files) : EntryFails(files[i], op.sts[i])}
        first == CHOOSE i \in failing : \A j \in failing : i <= j
        tried == IF failing = {} THEN Len(files) ELSE first
    IN  /\ Len(cmds) = tried
        /\ \A i \in 1..tried :
             /\ cmds[i].name = S_loadfile
             /\ cmds[i].args = LoadfileArgs(files[i])
             /\ cmds[i].result.ok <=> ~EntryFails(files[i], op.sts[i])
        /\ Len(calls) = Cardinality({i \in 1..tried : ~HasNul(cmds[i].text)})
        /\ IF failing = {} THEN result = Ok(Unit)
           ELSE /\ result = Err([tag |-> "Loadfiles", index |-> first - 1,
                                 error |-> EntryError(files[first], op.sts[first])])
                /\ cmds[first].result = Err(EntryError(files[first], op.sts[first]))

C8_Witness ==
  /\ op.name = "playlist_load_files"
  /\ Len(op.files) = MaxFiles
  /\ ~result.ok
  /\ result.err.index = 1
  /\ result.err.error = [tag |-> "Raw", code |-> -8]
  /\ Len(cmds) = 2

---------------------------------------------------------------------------
(* Native calls of one operation *)

CoreOps == {"command", "get_property", "set_property", "load_config"}

\* The entry point each core operation forwards to.
EntryPointOf(name) ==
  CASE name = "command" -> "mpv_command_string"
    [] name = "get_property" -> "mpv_get_property"
    [] name = "set_property" -> "mpv_set_property"
    [] name = "load_config" -> "mpv_load_config_file"

\* C11 as stated: each call of command, get_property, set_property or
\* load_config on a Ready handle invokes exactly one native entry point,
\* for every type and every outcome.
C11_ExactlyOneNative ==
  op.name \in CoreOps => Len(calls) = 1

\* C11, amended: each such call invokes its own entry point exactly once
\* when every text input converts to a C string and not at all when one
\* holds a NUL; the only other native call is mpv_free, which a
\* get_property as String makes at most once, on the buffer the read
\* returned and after the read.
C11_OneEntryPointPlusFree ==
  op.name \in CoreOps =>
    /\ Len(calls) <= 2
    /\ IF NulInput THEN calls = <<>>
       ELSE /\ Len(calls) >= 1
            /\ calls[1].fn = EntryPointOf(op.name)
    /\ Len(calls) = 2 =>
         /\ op.name = "get_property"
         /\ op.ty = "String"
         /\ calls[2] = CallFree(Len(bufs))

C11_Witness ==
  /\ op.name = "get_property"
  /\ op.ty = "String"
  /\ result.ok
  /\ Len(calls) = 2
  /\ calls[2].fn = "mpv_free"

---------------------------------------------------------------------------
(* Marshaling after a failed callback *)

\* C13: in every read and write marshaling path (default scalar, bool,
\* String, &str, MpvStr) a non-zero status of the native callback
\* short-circuits: the operation returns the Raw error of that status and
\* runs nothing else; no value is read out of the output storage, no text
\* is decoded (so no InvalidUtf8 and no Ok value) and mpv_free is not
\* called.
C13_ShortCircuit ==
  (/\ op.name \in {"get_property", "set_property"}
   /\ calls # <<>>
   /\ calls[1].status # 0)
  => /\ result = Err([tag |-> "Raw", code |-> calls[1].status])
     /\ Len(calls) = 1
     /\ \A i \in 1..Len(calls) : calls[i].fn # "mpv_free"
     /\ oob = 0

C13_Witness ==
  /\ op.name = "get_property"
  /\ op.ty = "String"
  /\ store.fmt = "MPV_FORMAT_STRING"
  /\ ~Utf8Valid(store.bytes)
  /\ Len(calls) = 1
  /\ calls[1].status = -1
  /\ result = Err([tag |-> "Raw", code |-> -1])

---------------------------------------------------------------------------
(* Width of the flag on the native side *)

\* C14: set_property of a boolean widens it to an integer buffer at least
\* as wide as the native flag, holding 1 for true and 0 for false, and
\* passes the address of that buffer; the native side, reading at its own
\* flag width, reads no byte outside the buffer and obtains 1 for true and
\* 0 for false.
C14_BoolWrite ==
  (/\ op.name = "set_property"
   /\ op.data.ty = "bool"
   /\ calls # <<>>
   /\ calls[1].status = 0)
  => /\ calls[1].format = "MPV_FORMAT_FLAG"
     /\ Len(calls[1].mem) >= NativeWidth(calls[1].format)
     /\ FromMem(calls[1].mem, bigEndian) = IntBits(8, IF op.data.b THEN 1 ELSE 0)
     /\ store = [fmt |-> "MPV_FORMAT_FLAG",
                 bits |-> IntBits(4, IF op.data.b THEN 1 ELSE 0)]

\* C15: for every readable type the output storage handed to
\* mpv_get_property is at least as large as the native representation of
\* the format the type reports, so the native write stays inside the
\* storage; reading a flag as bool writes no byte outside the storage of
\* the bool.
C15_ReadStorageFits ==
  (/\ op.name = "get_property"
   /\ calls # <<>>
   /\ calls[1].status = 0)
  => /\ SizeOf(op.ty) >= NativeWidth(calls[1].format)
     /\ oob = 0

---------------------------------------------------------------------------
(* Subtitles *)

SubtitleOps == {"subtitle_add_select", "subtitle_add_auto"}

\* The tokens that were supplied, title before language.
Supplied(title, lang) ==
  (IF title.some THEN <<title.v>> ELSE <<>>) \o (IF lang.some THEN <<lang.v>> ELSE <<>>)

---------------------------------------------------------------------------
(* Seeking by percentage *)

S_absolute_percent ==
  <<97, 98, 115, 111, 108, 117, 116, 101, 45, 112, 101, 114, 99, 101, 110, 116>>

\* C16: seek_percent_absolute(p) issues an absolute-percentage seek of p,
\* the command "seek p absolute-percent", which differs from the command
\* seek_percent issues for the same number.
C16_SeekPercentAbsolute ==
  op.name = "seek_percent_absolute" =>
    /\ Len(cmds) = 1
    /\ cmds[1].name = S_seek
    /\ cmds[1].args = <<FormatInt(op.percent), S_absolute_percent>>
    /\ cmds[1].text # SeekPercentOutcome(op.percent, 0).cmds[1].text

====
